---- MODULE Spec2Model ----
(***************************************************************************)
(* A model of pkg/settings/duration.go: the DurationSetting cluster        *)
(* setting.  One setting is registered, after which writer goroutines call *)
(* set / setToDefault and reader goroutines call Get.  The only shared     *)
(* mutable word is d.v, accessed with atomic.LoadInt64 / atomic.SwapInt64, *)
(* so each atomic operation is one step of the model and the local code    *)
(* around it belongs to the step of the atomic operation it follows.       *)
(*                                                                         *)
(* Durations are int64 counts; the model counts them in seconds.  No       *)
(* arithmetic is done on them, so the width is immaterial.                 *)
(***************************************************************************)
EXTENDS Integers, Sequences, FiniteSets, TLC

\* ---------------------------------------------------------------- bounds
\* Total number of set / setToDefault calls made in one behaviour.
MaxCalls == 3
\* Number of TestingSetDuration overrides made in one behaviour.
MaxOverrides == 2

\* ---------------------------------------------------------------- inputs
\* The durations handed to set: a negative one, zero, and two positive ones.
Durations == {-1, 0, 1, 5}
\* The defaults handed to the registration calls.
Defaults == {-1, 0, 1}
\* The goroutines that call set / setToDefault, and those that call Get.
Writers == {"w1", "w2"}
Readers == {"r1"}
\* The key the setting is registered under.
Keys == {"k"}
\* Validation functions a caller may pass to RegisterValidatedDurationSetting:
\* none, or one that insists on a strictly positive duration.
CallerValidators == {"nil", "positive"}

NoErr == "nil"
Err == "error"

VARIABLES
    registered,   \* TRUE once a registration call has returned the setting
    registry,     \* the keys the registry holds
    regCall,      \* the arguments of the registration call that was made
    panicked,     \* "none", or the function whose panic ended the program
    d,            \* the DurationSetting: defaultValue, v, validateFn, onChange
    pc,           \* writer -> "idle" | "changed" (swapped, d.changed() pending)
    op,           \* writer -> the method of its current / last call
    arg,          \* writer -> the argument of its current / last set
    ret,          \* writer -> result of its last completed call
    swapIdx,      \* writer -> position of its last swap in swaps
    raced,        \* TRUE once a set swapped while another set was in progress
    calls,        \* number of set / setToDefault calls made so far
    hookSaw,      \* writer -> <<x>> once the hook its set ran saw Get() = x
    swaps,        \* the values swapped into d.v, in the order of the swaps
    fired,        \* positions in swaps whose set went on to call d.changed()
    hookRuns,     \* number of times the attached onChange function has run
    completedIdx, \* highest position in swaps whose set call has returned
    rpc,          \* reader -> "idle" | "called" (inside Get, before the load)
    rstart,       \* reader -> completedIdx when its Get was called
    rgot,         \* reader -> <<x>> once its last Get returned x, else <<>>
    vres,         \* <<v, err>> once Validate(v) has returned err, else <<>>
    sptr,         \* the setting *s points to: 0 is d, i > 0 is tests[i]
    tests,        \* the detached settings TestingSetDuration has made
    saved,        \* saved[i]: the pointer held by the i-th restore function
    open,         \* the overrides not yet restored, innermost last
    lifo          \* TRUE while every restore undid the innermost override

vars == <<registered, registry, regCall, panicked, d, pc, op, arg, ret,
          swapIdx, raced, calls, hookSaw, swaps, fired, hookRuns,
          completedIdx, rpc, rstart, rgot, vres, sptr, tests, saved, open,
          lifo>>

writerVars == <<pc, op, arg, ret, swapIdx, raced, calls, hookSaw>>
logVars == <<swaps, fired, hookRuns, completedIdx>>
readerVars == <<rpc, rstart, rgot>>
regVars == <<registered, registry, regCall>>
testVars == <<sptr, tests, saved, open, lifo>>

\* ------------------------------------------------------------ the setting
\* The zero value of the struct: what &DurationSetting{} holds.
ZeroSetting ==
    [defaultValue |-> 0, v |-> 0, validateFn |-> "nil", onChange |-> "nil"]

\* A non-negative check that also turns zero down.
NonNegative_RejectsZero(v) == IF v <= 0 THEN Err ELSE NoErr

\* The closure RegisterNonNegativeDurationSetting passes as validateFn.
NonNegative(v) == IF v < 0 THEN Err ELSE NoErr

\* A caller-supplied validateFn that rejects every duration <= 0.
Positive(v) == IF v <= 0 THEN Err ELSE NoErr

\* Calling the function value fn on v.
ApplyValidateFn(fn, v) ==
    CASE fn = "nonNegative" -> NonNegative(v)
      [] fn = "positive" -> Positive(v)

\* A Get that answers from the immutable default instead of loading d.v.
Get_FromDefault(s) == s.defaultValue

Get(s) == s.v

EncodeDuration(x) == ToString(x) \o "s"

String(s) == EncodeDuration(Get(s))

\* A Validate that never consults validateFn.
Validate_Skipped(s, v) == NoErr

Validate(s, v) ==
    IF s.validateFn # "nil"
    THEN IF ApplyValidateFn(s.validateFn, v) # NoErr
         THEN ApplyValidateFn(s.validateFn, v)
         ELSE NoErr
    ELSE NoErr

\* ------------------------------------------------------------------ Init
Init ==
    /\ registered = FALSE
    /\ registry = {}
    /\ regCall = [made |-> FALSE, defaultValue |-> 0, validateFn |-> "nil"]
    /\ panicked = "none"
    /\ d = ZeroSetting
    /\ pc = [w \in Writers |-> "idle"]
    /\ op = [w \in Writers |-> "none"]
    /\ arg = [w \in Writers |-> 0]
    /\ ret = [w \in Writers |-> "none"]
    /\ swapIdx = [w \in Writers |-> 0]
    /\ raced = FALSE
    /\ calls = 0
    /\ hookSaw = [w \in Writers |-> <<>>]
    /\ swaps = <<>>
    /\ fired = {}
    /\ hookRuns = 0
    /\ completedIdx = 0
    /\ rpc = [r \in Readers |-> "idle"]
    /\ rstart = [r \in Readers |-> 0]
    /\ rgot = [r \in Readers |-> <<>>]
    /\ vres = <<>>
    /\ sptr = 0
    /\ tests = <<>>
    /\ saved = <<>>
    /\ open = <<>>
    /\ lifo = TRUE

\* ---------------------------------------------------------- registration
\* The registry's register(key, desc, setting): files the setting under key.
register(reg, key) == reg \cup {key}

\* The setting the struct literal of RegisterValidatedDurationSetting builds:
\* defaultValue and validateFn are given, v and the hook keep their zero value.
NewSetting(defaultValue, validateFn) ==
    [ZeroSetting EXCEPT !.defaultValue = defaultValue,
                        !.validateFn = validateFn]

\* A registration that never checks the default it is given.
InvalidDefault_Unchecked(defaultValue, validateFn) == FALSE

\* TRUE when the registration call panics with "invalid default".
InvalidDefault(defaultValue, validateFn) ==
    /\ validateFn # "nil"
    /\ ApplyValidateFn(validateFn, defaultValue) # NoErr

RegisterValidatedDurationSetting(key, defaultValue, validateFn) ==
    /\ ~registered
    /\ ~regCall.made
    /\ panicked = "none"
    /\ regCall' = [made |-> TRUE, defaultValue |-> defaultValue,
                   validateFn |-> validateFn]
    /\ IF InvalidDefault(defaultValue, validateFn)
       THEN /\ panicked' = "RegisterValidatedDurationSetting"
            /\ UNCHANGED <<registered, registry, d>>
       ELSE /\ d' = NewSetting(defaultValue, validateFn)
            /\ registry' = register(registry, key)
            /\ registered' = TRUE
            /\ UNCHANGED panicked
    /\ UNCHANGED <<writerVars, logVars, readerVars, vres, testVars>>

RegisterDurationSetting(key, defaultValue) ==
    RegisterValidatedDurationSetting(key, defaultValue, "nil")

RegisterNonNegativeDurationSetting(key, defaultValue) ==
    RegisterValidatedDurationSetting(key, defaultValue, "nonNegative")

\* The hook is attached while the program is still being set up, before any
\* set is called: OnChange chained onto the registration call.
setOnChange(s, fn) == [s EXCEPT !.onChange = fn]

OnChange(fn) ==
    /\ registered
    /\ panicked = "none"
    /\ calls = 0
    /\ d' = setOnChange(d, fn)
    /\ UNCHANGED <<regVars, panicked, writerVars, logVars, readerVars, vres,
                   testVars>>

\* -------------------------------------------------------------- writers
Max(a, b) == IF a >= b THEN a ELSE b

\* A swap that reports the old word but fails to store the new one.
SwapInt64_NoStore(s, new) == [s |-> s, old |-> s.v]

\* A swap that stores the new word but reports the new word as the old one.
SwapInt64_ReportsNew(s, new) == [s |-> [s EXCEPT !.v = new], old |-> new]

\* atomic.SwapInt64(&s.v, new): the setting afterwards, and the old word.
SwapInt64(s, new) == [s |-> [s EXCEPT !.v = new], old |-> s.v]

\* A comparison that takes every swap for a change.
SwapChanged_Always(old, new) == TRUE

\* A comparison against the zero word instead of the word swapped out.
SwapChanged_AgainstZero(old, new) == new # 0

\* The comparison of line 64: did the swap replace a different word?
SwapChanged(old, new) == old # new

\* common.changed(): runs the attached onChange function, if there is one.
changed(s, runs) == IF s.onChange # "nil" THEN runs + 1 ELSE runs

\* The first step of d.set(val), called through method ("set" or
\* "setToDefault"): Validate, and when it passes the atomic swap and the
\* comparison of the old word with the new one.  A failed validation returns
\* the error to set's caller; setToDefault panics on it.
setBegin(w, val, method) ==
    /\ registered
    /\ panicked = "none"
    /\ pc[w] = "idle"
    /\ calls < MaxCalls
    /\ calls' = calls + 1
    /\ op' = [op EXCEPT ![w] = method]
    /\ arg' = [arg EXCEPT ![w] = val]
    /\ hookSaw' = [hookSaw EXCEPT ![w] = <<>>]
    /\ IF Validate(d, val) # NoErr
       THEN /\ ret' = [ret EXCEPT ![w] = Err]
            /\ panicked' = IF method = "setToDefault" THEN "setToDefault"
                           ELSE panicked
            /\ UNCHANGED <<d, pc, swapIdx, raced, logVars>>
       ELSE LET sw == SwapInt64(d, val) IN
            /\ d' = sw.s
            /\ swaps' = Append(swaps, val)
            /\ swapIdx' = [swapIdx EXCEPT ![w] = Len(swaps) + 1]
            /\ raced' = (raced \/ \E x \in Writers \ {w} : pc[x] = "changed")
            /\ IF SwapChanged(sw.old, val)
               THEN /\ pc' = [pc EXCEPT ![w] = "changed"]
                    /\ ret' = [ret EXCEPT ![w] = "none"]
                    /\ UNCHANGED completedIdx
               ELSE /\ ret' = [ret EXCEPT ![w] = "ok"]
                    /\ completedIdx' = Max(completedIdx, Len(swaps) + 1)
                    /\ UNCHANGED pc
            /\ UNCHANGED <<panicked, fired, hookRuns>>
    /\ UNCHANGED <<regVars, readerVars, vres, testVars>>

set(w, val) == setBegin(w, val, "set")

setToDefault(w) == setBegin(w, d.defaultValue, "setToDefault")

\* The second step of a set whose swap changed the word: d.changed(), then
\* return nil.  The attached function is the caller's: "fn" only returns,
\* "get" reads the setting with Get() and returns, "panic" panics.  set has
\* no recover, so a panic of the hook leaves set without a return value and
\* reaches set's caller, who either recovers from it or lets it end the
\* program.
setChanged(w) ==
    /\ panicked = "none"
    /\ pc[w] = "changed"
    /\ hookRuns' = changed(d, hookRuns)
    /\ fired' = fired \cup {swapIdx[w]}
    /\ hookSaw' = IF d.onChange = "get"
                  THEN [hookSaw EXCEPT ![w] = <<Get(d)>>]
                  ELSE hookSaw
    /\ pc' = [pc EXCEPT ![w] = "idle"]
    /\ completedIdx' = Max(completedIdx, swapIdx[w])
    /\ IF d.onChange = "panic"
       THEN /\ ret' = [ret EXCEPT ![w] = "panic"]
            /\ \E recovered \in BOOLEAN :
                   panicked' = IF recovered THEN panicked ELSE "onChange"
       ELSE /\ ret' = [ret EXCEPT ![w] = "ok"]
            /\ UNCHANGED panicked
    /\ UNCHANGED <<regVars, d, op, arg, swapIdx, raced, calls, swaps,
                   readerVars, vres, testVars>>

\* -------------------------------------------------------------- readers
\* A reader enters Get.
GetCall(r) ==
    /\ registered
    /\ panicked = "none"
    /\ rpc[r] = "idle"
    /\ rpc' = [rpc EXCEPT ![r] = "called"]
    /\ rstart' = [rstart EXCEPT ![r] = completedIdx]
    /\ rgot' = [rgot EXCEPT ![r] = <<>>]
    /\ UNCHANGED <<regVars, panicked, d, writerVars, logVars, vres, testVars>>

\* A Get that waits on a lock the writers hold from their swap to the end of
\* their hook.
GetLoad_Locked(r) ==
    /\ panicked = "none"
    /\ rpc[r] = "called"
    /\ \A w \in Writers : pc[w] = "idle"
    /\ rpc' = [rpc EXCEPT ![r] = "idle"]
    /\ rgot' = [rgot EXCEPT ![r] = <<Get(d)>>]
    /\ UNCHANGED <<regVars, panicked, d, writerVars, logVars, rstart, vres,
                   testVars>>

\* The atomic load of Get, and its return.
GetLoad(r) ==
    /\ panicked = "none"
    /\ rpc[r] = "called"
    /\ rpc' = [rpc EXCEPT ![r] = "idle"]
    /\ rgot' = [rgot EXCEPT ![r] = <<Get(d)>>]
    /\ UNCHANGED <<regVars, panicked, d, writerVars, logVars, rstart, vres,
                   testVars>>

\* ------------------------------------------------------------- Validate
\* A call of the public d.Validate(v) by any goroutine, and what it returned.
ValidateCall(v) ==
    /\ registered
    /\ panicked = "none"
    /\ vres' = <<v, Validate(d, v)>>
    /\ UNCHANGED <<regVars, panicked, d, writerVars, logVars, readerVars,
                   testVars>>

\* -------------------------------------------------------- test overrides
\* The setting a pointer value stands for.
Deref(p) == IF p = 0 THEN d ELSE tests[p]

\* TestingDuration(v), and the struct literal of TestingSetDuration: a
\* setting that holds v and is in no registry.
TestingDuration(v) == [ZeroSetting EXCEPT !.v = v]

\* A restore function that leaves *s as it finds it.
Restored_Noop(savedPtr, current) == current

\* A restore function that always puts the registered setting back.
Restored_ToRegistered(savedPtr, current) == 0

\* What the function returned by TestingSetDuration assigns to *s.
Restored(savedPtr, current) == savedPtr

\* TestingSetDuration(s, v), s being the address of the variable that holds
\* the registered setting: saves *s, points *s to a new setting holding v and
\* returns the function that puts the saved pointer back.
TestingSetDuration(v) ==
    /\ registered
    /\ panicked = "none"
    /\ Len(tests) < MaxOverrides
    /\ saved' = Append(saved, sptr)
    /\ tests' = Append(tests, TestingDuration(v))
    /\ sptr' = Len(tests) + 1
    /\ open' = Append(open, Len(tests) + 1)
    /\ UNCHANGED <<regVars, panicked, d, writerVars, logVars, readerVars,
                   vres, lifo>>

\* A call of the function the i-th TestingSetDuration returned.
Restore(i) ==
    /\ panicked = "none"
    /\ i \in 1..Len(saved)
    /\ sptr' = Restored(saved[i], sptr)
    /\ lifo' = (lifo /\ open # <<>> /\ open[Len(open)] = i)
    /\ open' = SelectSeq(open, LAMBDA x : x # i)
    /\ UNCHANGED <<regVars, panicked, d, writerVars, logVars, readerVars,
                   vres, tests, saved>>

\* ------------------------------------------------------------------ Next
\* The registration calls.
Registering ==
    \/ \E k \in Keys, def \in Defaults : RegisterDurationSetting(k, def)
    \/ \E k \in Keys, def \in Defaults :
          RegisterNonNegativeDurationSetting(k, def)
    \/ \E k \in Keys, def \in Defaults, fn \in CallerValidators :
          RegisterValidatedDurationSetting(k, def, fn)

\* The writers' steps.
Writing ==
    \/ \E w \in Writers, val \in Durations : set(w, val)
    \/ \E w \in Writers : setToDefault(w)
    \/ \E w \in Writers : setChanged(w)

\* The readers' steps.
Reading ==
    \/ \E r \in Readers : GetCall(r)
    \/ \E r \in Readers : GetLoad(r)

\* Everything but the attaching of a hook.
Operations == Registering \/ Writing \/ Reading

\* The program whose hook, if one is attached, only returns.
Next == Operations \/ OnChange("fn")

Spec == Init /\ [][Next]_vars

\* The program whose hook, if one is attached, reads the setting with Get().
NextHookGet == Operations \/ OnChange("get")

SpecHookGet == Init /\ [][NextHookGet]_vars

\* The program whose hook, if one is attached, panics.
NextHookPanic == Operations \/ OnChange("panic")

SpecHookPanic == Init /\ [][NextHookPanic]_vars

\* Registration, the writers and callers of Validate.  Validate shares no
\* state with the readers, which are left out here.
NextValidate ==
    \/ Registering
    \/ Writing
    \/ OnChange("fn")
    \/ \E v \in Durations : ValidateCall(v)

SpecValidate == Init /\ [][NextValidate]_vars

\* Registration, setToDefault on the registered setting, and a test that
\* overrides the variable holding it and calls the restore functions.
NextTesting ==
    \/ Registering
    \/ \E w \in Writers : setToDefault(w)
    \/ \E w \in Writers : setChanged(w)
    \/ \E v \in Durations : TestingSetDuration(v)
    \/ \E i \in 1..MaxOverrides : Restore(i)

SpecTesting == Init /\ [][NextTesting]_vars

\* =============================================================== properties
\* The word d.v held after the first i swaps; before any swap, the zero word
\* the struct literal leaves in it.
ValueAt(i) == IF i = 0 THEN ZeroSetting.v ELSE swaps[i]

\* validateFn fn turns the duration v down.
Rejected(fn, v) == fn # "nil" /\ ApplyValidateFn(fn, v) = Err

\* The set that made swap i has not yet come to its d.changed() call.
Pending(i) == \E w \in Writers : pc[w] = "changed" /\ swapIdx[w] = i

\* The swaps that replaced a word by a different one.
Changing == {i \in 1..Len(swaps) : ValueAt(i) # ValueAt(i - 1)}

\* No set is in progress.
AllIdle == \A w \in Writers : pc[w] = "idle"

\* Reader r's last Get has returned, and what it returned.
Returned(r) == rgot[r] # <<>>
Got(r) == rgot[r][1]

\* Writer w has swapped, and nobody has swapped since.
Alone(w) == swapIdx[w] > 0 /\ swapIdx[w] = Len(swaps)

\* C1: from registration onward the stored current value satisfies the
\* setting's validateFn (or the setting has none).
C1_StoredValueValid ==
    registered => ~Rejected(d.validateFn, d.v)

\* C2: a set(v) of a duration the validator accepts (any duration when there
\* is no validator) returns success, and as long as no other writer has
\* swapped since, Get() returns exactly v.
C2_AcceptedSetStores ==
    \A w \in Writers :
        (pc[w] = "idle" /\ ret[w] # "none") =>
            /\ (~Rejected(d.validateFn, arg[w]) => ret[w] = "ok")
            /\ (ret[w] = "ok" /\ Alone(w) => Get(d) = arg[w])
            /\ (ret[w] = "ok" /\ Alone(w) =>
                   \A r \in Readers :
                       (Returned(r) /\ rstart[r] = swapIdx[w]) =>
                           Got(r) = arg[w])

C2_Witness ==
    \E w \in Writers, r \in Readers :
        /\ pc[w] = "idle" /\ ret[w] = "ok" /\ Alone(w)
        /\ d.validateFn = "nonNegative" /\ arg[w] = 5 /\ d.defaultValue = 1
        /\ rstart[r] = swapIdx[w] /\ Returned(r) /\ Got(r) = 5

\* C3: a set(v) of a duration the validator rejects returns the validation
\* error and leaves the stored value, hence Get() and String(), as they were;
\* nothing is swapped and no hook runs.
C3_RejectedSetChangesNothing ==
    [][\A w \in Writers, val \in Durations :
          (set(w, val) /\ Rejected(d.validateFn, val)) =>
              /\ ret'[w] = Err
              /\ pc'[w] = "idle"
              /\ d' = d
              /\ Get(d)' = Get(d)
              /\ String(d)' = String(d)
              /\ swaps' = swaps
              /\ hookRuns' = hookRuns /\ fired' = fired]_vars

C3_Witness ==
    \E w \in Writers :
        /\ pc[w] = "idle" /\ ret[w] = Err /\ arg[w] = -1
        /\ d.validateFn = "nonNegative"
        /\ Len(swaps) = 1 /\ Get(d) = 1 /\ String(d) = "1s"

\* C4: a successful set calls the change hook if and only if the word it
\* swapped in differs from the word stored immediately before its swap; the
\* attached function runs once per such call.
C4_HookIffSwapChanged ==
    /\ \A i \in 1..Len(swaps) :
           /\ i \in fired => ValueAt(i) # ValueAt(i - 1)
           /\ (ValueAt(i) # ValueAt(i - 1) /\ ~Pending(i)) => i \in fired
    /\ hookRuns = IF d.onChange # "nil" THEN Cardinality(fired) ELSE 0

C4_Witness ==
    /\ AllIdle
    /\ d.onChange # "nil"
    /\ \E i, j \in 1..Len(swaps) : i \in fired /\ j \notin fired
    /\ hookRuns = 1

\* C5: a freshly registered setting on which no set has succeeded returns its
\* defaultValue from Get().
C5_FreshGetIsDefault ==
    (registered /\ swaps = <<>>) => Get(d) = d.defaultValue

\* C6: every value a Get() returns is the setting's default or one of the
\* values the writers have set.
C6_GetReturnsDefaultOrSetValue ==
    \A r \in Readers :
        Returned(r) =>
            Got(r) \in {d.defaultValue} \cup {swaps[i] : i \in 1..Len(swaps)}

\* C7: once concurrent sets of valid values have all completed, the stored
\* value is the value of one of them (the last to swap), and the hook has run
\* once for every swap, in swap order, whose value differs from the value
\* just before it.
C7_ConcurrentSetsSettle ==
    AllIdle =>
        /\ Len(swaps) > 0 => d.v = swaps[Len(swaps)]
        /\ (\A w \in Writers : ret[w] = "ok") => d.v \in {arg[w] : w \in Writers}
        /\ d.onChange # "nil" => hookRuns = Cardinality(Changing)

C7_Witness ==
    /\ raced /\ AllIdle
    /\ \A w \in Writers : ret[w] = "ok"
    /\ arg["w1"] # arg["w2"]
    /\ d.onChange # "nil" /\ hookRuns = 2
    /\ d.v = arg["w1"] /\ swapIdx["w1"] = 2

\* C8: of two sets in a row with the same valid value the second never calls
\* the hook, so the hook runs at most once across the two, and after the
\* second the stored value is that value.
C8_RepeatedSetIsSilent ==
    \A i \in 2..Len(swaps) :
        swaps[i] = swaps[i - 1] =>
            /\ i \notin fired /\ ~Pending(i)
            /\ Cardinality(fired \cap {i - 1, i}) <= 1
            /\ i = Len(swaps) => d.v = swaps[i]

C8_Witness ==
    /\ ~raced /\ AllIdle
    /\ swaps = <<5, 5>> /\ fired = {1}
    /\ swapIdx["w1"] = 2 /\ swapIdx["w2"] = 0
    /\ d.onChange # "nil" /\ hookRuns = 1 /\ Get(d) = 5

\* C9: a registration whose default its validateFn rejects panics inside the
\* registration call, with nothing filed in the registry and no setting
\* returned; a registered setting never has a default its validator rejects.
C9_InvalidDefaultPanics ==
    /\ (regCall.made /\ Rejected(regCall.validateFn, regCall.defaultValue)) =>
           /\ panicked = "RegisterValidatedDurationSetting"
           /\ ~registered
           /\ registry = {}
           /\ d = ZeroSetting
    /\ registered =>
           /\ ~Rejected(d.validateFn, d.defaultValue)
           /\ registry # {}
           /\ panicked # "RegisterValidatedDurationSetting"

C9_Witness ==
    /\ regCall.made
    /\ regCall.validateFn = "nonNegative" /\ regCall.defaultValue = -1
    /\ panicked = "RegisterValidatedDurationSetting"

\* C10: a Get() that starts after a set has completed returns the value of
\* that set's swap or of a later swap, never an earlier one.
C10_GetSeesCompletedSet ==
    \A r \in Readers :
        Returned(r) =>
            \E i \in rstart[r]..Len(swaps) : Got(r) = ValueAt(i)

C10_Witness ==
    \E r \in Readers :
        /\ rstart[r] = 1 /\ Len(swaps) = 2
        /\ swaps[1] # swaps[2] /\ swaps[1] # 0
        /\ Returned(r) /\ Got(r) = swaps[2]

\* C11: a Get() made inside the hook returns the value whose swap triggered
\* that run of the hook or the value of a later swap, never an earlier one;
\* the hook runs only after its swap has taken effect.
C11_HookSeesItsSwap ==
    /\ fired \subseteq 1..Len(swaps)
    /\ \A w \in Writers :
           hookSaw[w] # <<>> =>
               /\ swapIdx[w] \in fired
               /\ \E i \in swapIdx[w]..Len(swaps) : hookSaw[w][1] = ValueAt(i)

C11_Witness ==
    /\ raced
    /\ Len(swaps) = 2 /\ swaps[1] # swaps[2] /\ swaps[1] # 0 /\ swaps[2] # 0
    /\ swapIdx["w1"] = 1 /\ hookSaw["w1"] = <<swaps[2]>>
    /\ swapIdx["w2"] = 2 /\ hookSaw["w2"] = <<swaps[2]>>

\* C12: setToDefault never reaches its panic, and when it has returned and no
\* other writer has swapped since, Get() equals defaultValue.
C12_SetToDefaultNeverFails ==
    /\ panicked # "setToDefault"
    /\ \A w \in Writers :
           op[w] = "setToDefault" =>
               /\ ret[w] # Err
               /\ arg[w] = d.defaultValue
               /\ (pc[w] = "idle" /\ ret[w] = "ok" /\ Alone(w)) =>
                      Get(d) = d.defaultValue

C12_Witness ==
    \E w \in Writers :
        /\ op[w] = "setToDefault" /\ pc[w] = "idle" /\ ret[w] = "ok"
        /\ Alone(w) /\ Len(swaps) = 2 /\ swaps[1] = 5
        /\ d.validateFn = "positive" /\ d.defaultValue = 1 /\ Get(d) = 1

\* C14: a setting made by RegisterNonNegativeDurationSetting refuses set(v)
\* exactly when v < 0, and one made by RegisterDurationSetting (no validateFn)
\* refuses nothing.
C14_NonNegativeRejectsNegatives ==
    \A w \in Writers :
        /\ pc[w] = "changed" =>
               (d.validateFn = "nonNegative" => arg[w] >= 0)
        /\ (pc[w] = "idle" /\ ret[w] # "none") =>
               /\ d.validateFn = "nonNegative" =>
                      (ret[w] = Err <=> arg[w] < 0)
               /\ d.validateFn = "nil" => ret[w] = "ok"

C14_Witness ==
    /\ d.validateFn = "nonNegative"
    /\ AllIdle
    /\ ret["w1"] = Err /\ arg["w1"] = -1
    /\ ret["w2"] = "ok" /\ arg["w2"] = 0 /\ op["w2"] = "set"

\* C16: when two sets swap in the same value v one after the other over a
\* stored value u # v, exactly one of the two calls the hook, however the two
\* calls interleave.
C16_SameValueRaceFiresOnce ==
    /\ \A i \in 2..Len(swaps) :
           (/\ swaps[i] = swaps[i - 1]
            /\ ValueAt(i - 2) # swaps[i]
            /\ ~Pending(i - 1)) =>
               (fired \cap {i - 1, i}) = {i - 1}
    /\ (AllIdle /\ Len(swaps) = 2 /\ swaps[1] = swaps[2] /\ swaps[1] # 0
          /\ d.onChange # "nil") => hookRuns = 1

C16_Witness ==
    /\ raced /\ AllIdle
    /\ swaps = <<5, 5>>
    /\ swapIdx["w1"] = 1 /\ swapIdx["w2"] = 2
    /\ ret["w1"] = "ok" /\ ret["w2"] = "ok"
    /\ d.onChange # "nil" /\ hookRuns = 1 /\ fired = {1}

\* C17: a Get() is never blocked: a reader inside Get can always take its
\* load, also while a set is between its swap and the end of its hook, a
\* reader outside Get can always enter it, and a set whose hook calls Get()
\* can always finish.
C17_GetNeverBlocked ==
    /\ \A r \in Readers :
           /\ rpc[r] = "called" => ENABLED GetLoad(r)
           /\ (registered /\ rpc[r] = "idle") => ENABLED GetCall(r)
    /\ \A w \in Writers : pc[w] = "changed" => ENABLED setChanged(w)

C17_Witness ==
    \E r \in Readers, w \in Writers :
        /\ d.onChange = "get"
        /\ pc[w] = "changed" /\ swapIdx[w] = 1 /\ Len(swaps) = 1 /\ arg[w] = 5
        /\ rpc[r] = "idle" /\ Returned(r) /\ Got(r) = 5

\* C18: a set that fails validation never calls the hook: the hook runs at
\* most once per swap, and every swap belongs to a set whose value the
\* validator accepts.
C18_RejectedSetNeverFires ==
    /\ hookRuns <= Len(swaps)
    /\ Cardinality(fired) <= Len(swaps)
    /\ \A i \in 1..Len(swaps) : ~Rejected(d.validateFn, swaps[i])
    /\ \A w \in Writers :
           Rejected(d.validateFn, arg[w]) => (pc[w] = "idle" /\ ret[w] # "ok")

C18_Witness ==
    /\ AllIdle
    /\ d.onChange # "nil" /\ hookRuns = 1 /\ Len(swaps) = 1 /\ calls = 3
    /\ \A w \in Writers : ret[w] = Err

\* C19: when the hook panics during set(v) the panic reaches set's caller as
\* it is (set returns neither success nor an error), v stays stored, so a
\* later Get() returns v, and a repeated set(v) does not call the hook again.
C19_HookPanicKeepsValue ==
    /\ \A w \in Writers :
           /\ ret[w] = "panic" =>
                  /\ pc[w] = "idle" /\ d.onChange = "panic"
                  /\ swapIdx[w] \in fired
                  /\ Alone(w) => Get(d) = arg[w]
                  /\ Alone(w) =>
                         \A r \in Readers :
                             (Returned(r) /\ rstart[r] = swapIdx[w]) =>
                                 Got(r) = arg[w]
           /\ (d.onChange = "panic" /\ pc[w] = "idle" /\ ret[w] = "ok") =>
                  swapIdx[w] \notin fired
    /\ panicked = "onChange" => \E w \in Writers : ret[w] = "panic"
    /\ \A i \in 2..Len(swaps) :
           swaps[i] = swaps[i - 1] => (i \notin fired /\ ~Pending(i))

C19_Witness ==
    /\ d.onChange = "panic" /\ panicked = "none"
    /\ ~raced /\ AllIdle
    /\ swaps = <<5, 5>> /\ fired = {1} /\ hookRuns = 1
    /\ swapIdx["w1"] = 1 /\ ret["w1"] = "panic"
    /\ swapIdx["w2"] = 2 /\ ret["w2"] = "ok"
    /\ Get(d) = 5
    /\ \E r \in Readers : Returned(r) /\ rstart[r] = 2 /\ Got(r) = 5

\* C13: Validate(v) leaves the stored value alone and never calls the hook,
\* whatever v is and whatever it answers; without a validateFn it answers nil
\* for every v, and with one it answers exactly what validateFn answers on v.
C13_ValidateIsPure ==
    [][\A v \in Durations :
          ValidateCall(v) =>
              /\ d' = d /\ Get(d)' = Get(d)
              /\ hookRuns' = hookRuns /\ fired' = fired /\ swaps' = swaps
              /\ pc' = pc /\ ret' = ret
              /\ vres'[1] = v
              /\ d.validateFn = "nil" => vres'[2] = NoErr
              /\ d.validateFn # "nil" =>
                     vres'[2] = ApplyValidateFn(d.validateFn, v)]_vars

C13_Witness ==
    /\ vres = <<-1, Err>>
    /\ d.validateFn = "nonNegative"
    /\ d.onChange # "nil" /\ hookRuns = 1
    /\ swaps = <<5>> /\ Get(d) = 5

\* C15: TestingSetDuration(s, v) points *s to a new detached setting whose
\* Get() is v, leaving the setting *s pointed to as it was; the function it
\* returns points *s back to exactly the setting it pointed to before that
\* override, and overrides restored innermost first end with the original.
C15_OverrideAndRestore ==
    /\ [](lifo => sptr = IF open = <<>> THEN 0 ELSE open[Len(open)])
    /\ [][/\ \A v \in Durations :
                TestingSetDuration(v) =>
                    /\ sptr' \notin 0..Len(tests)
                    /\ Get(Deref(sptr))' = v
                    /\ Deref(sptr)'.validateFn = "nil"
                    /\ saved'[sptr'] = sptr
                    /\ (IF sptr = 0 THEN d' ELSE tests'[sptr]) = Deref(sptr)
                    /\ d' = d /\ registry' = registry
          /\ \A i \in 1..Len(saved) :
                Restore(i) =>
                    /\ sptr' = saved[i]
                    /\ Deref(sptr)' = Deref(saved[i])
                    /\ d' = d /\ tests' = tests]_vars

C15_Witness ==
    /\ Len(tests) = 2 /\ saved = <<0, 1>>
    /\ open = <<>> /\ lifo /\ sptr = 0
    /\ Get(tests[1]) = 5 /\ Get(tests[2]) = -1
    /\ swaps = <<1>> /\ Get(Deref(sptr)) = 1

====
